---- MODULE Spec2Model ----
(***************************************************************************)
(* History Rewritten: the publication cycle of HistoryRewrittenBot         *)
(* (generate -> gate -> illustrate -> publish -> record), its JSON history *)
(* log, the novelty gate (fingerprint + Jaccard similarity) and the post   *)
(* text composition, modelled from src/history_rewritten.py.               *)
(*                                                                         *)
(* Text is a sequence of one-character strings, so that lower(), split(),  *)
(* slicing and the '|'-joined fingerprint input are computed as the code   *)
(* computes them.  SHA-1 is modelled as injective on its input: the digest *)
(* of a text is the text itself.                                           *)
(***************************************************************************)
EXTENDS Integers, Sequences, FiniteSets, TLC

\* ------------------------------------------------------------------ bounds
\* Number of invocations of main() explored by the sequential specification.
MaxCycles == 3
\* Longest history handed to check_uniqueness alone.
MaxHist == 2
\* format_post_text alone: field lengths 0..MaxShort, and within MaxNear of the cap.
MaxShort == 2
MaxNear == 20
\* calculate_content_hash alone: longest title, description and location.
MaxField == 2

\* ------------------------------------------------------- program constants
\* check_uniqueness(..., threshold: float = 0.7), as the fraction 7/10.
ThresholdNum == 7
ThresholdDen == 10
\* safe_title[:50]
TitleMax == 50
\* the post length cap of format_post_text
PostCap == 280
\* len("...")
EllipsisLen == 3

\* -------------------------------------------------------------------- text
\* str.lower() on the alphabet of the model.
LowerChar(c) ==
  CASE c = "A" -> "a"
    [] c = "B" -> "b"
    [] c = "X" -> "x"
    [] OTHER -> c

lower(s) == [i \in 1..Len(s) |-> LowerChar(s[i])]

\* The characters str.split() (no argument) separates on.
IsSpace(c) == c \in {" ", "\t", "\n"}

\* str.isalnum() on the alphabet of the model.
IsAlnum(c) == ~IsSpace(c) /\ c \notin {"|", "_", ".", ","}

RECURSIVE split_from(_, _, _)
split_from(s, i, cur) ==
  IF i > Len(s)
    THEN (IF cur = <<>> THEN <<>> ELSE <<cur>>)
    ELSE IF IsSpace(s[i])
      THEN (IF cur = <<>> THEN split_from(s, i + 1, <<>>)
                          ELSE <<cur>> \o split_from(s, i + 1, <<>>))
      ELSE split_from(s, i + 1, Append(cur, s[i]))

\* str.split(): the list of maximal runs of non-whitespace characters.
split(s) == split_from(s, 1, <<>>)

\* set(list)
ToSet(q) == {q[i] : i \in DOMAIN q}

\* s[:n] for n >= 0 and for n < 0 (Python drops the last -n characters).
Slice(s, n) ==
  IF n >= 0
    THEN SubSeq(s, 1, IF n < Len(s) THEN n ELSE Len(s))
    ELSE SubSeq(s, 1, IF Len(s) + n > 0 THEN Len(s) + n ELSE 0)

\* Mutant: a missing key reads as the text "None", whatever the default.
Get_none(entry, key, default) ==
  IF key \in DOMAIN entry THEN entry[key] ELSE <<"N", "o", "n", "e">>

\* dict.get(key, default)
Get(entry, key, default) == IF key \in DOMAIN entry THEN entry[key] ELSE default

\* None, as returned by entry.get('hash') on a record without a hash.
None == <<"None">>

\* ------------------------------------------------------------- fingerprint
\* f"{title}|{description}|{location}", hashed by an injective digest.
calculate_content_hash(event) ==
  event.title \o <<"|">> \o event.description \o <<"|">> \o event.location

\* ------------------------------------------------------------ novelty gate
\* set(title.lower().split() + description.lower().split() + location.lower().split())
new_words(new_event) ==
  ToSet(split(lower(new_event.title)) \o split(lower(new_event.description))
        \o split(lower(new_event.location)))

\* The same set for a stored entry; a missing field reads as ''.
existing_words(entry) ==
  ToSet(split(lower(Get(entry, "title", <<>>)))
        \o split(lower(Get(entry, "description", <<>>)))
        \o split(lower(Get(entry, "location", <<>>))))

\* for entry in history_log: if entry.get('hash') == new_hash: return False
HashMatch(new_event, history_log) ==
  \E i \in DOMAIN history_log :
    Get(history_log[i], "hash", None) = calculate_content_hash(new_event)

\* Mutant: similarity >= threshold.
SimilarityExceeds_ge(a, b, tn, td) ==
  LET intersection == Cardinality(a \cap b)
      union == Cardinality(a \cup b)
  IN IF union > 0 THEN intersection * td >= tn * union
                  ELSE 0 >= tn

\* Mutant: two empty token sets count as identical (similarity 1).
SimilarityExceeds_empty1(a, b, tn, td) ==
  LET intersection == Cardinality(a \cap b)
      union == Cardinality(a \cup b)
  IN IF union > 0 THEN intersection * td > tn * union
                  ELSE td > tn

\* similarity = intersection / union if union > 0 else 0; similarity > threshold,
\* with threshold = tn / td (td > 0), compared exactly.
SimilarityExceeds(a, b, tn, td) ==
  LET intersection == Cardinality(a \cap b)
      union == Cardinality(a \cup b)
  IN IF union > 0 THEN intersection * td > tn * union
                  ELSE 0 > tn

\* Mutant: only the oldest entry is compared.
SimilarMatch_first(new_event, history_log, tn, td) ==
  /\ Len(history_log) >= 1
  /\ SimilarityExceeds(new_words(new_event), existing_words(history_log[1]), tn, td)

\* for entry in history_log: ... if similarity > threshold: return False
SimilarMatch(new_event, history_log, tn, td) ==
  \E i \in DOMAIN history_log :
    SimilarityExceeds(new_words(new_event), existing_words(history_log[i]), tn, td)

\* Mutant: the exact-hash pass is missing.
check_uniqueness_no_hash(new_event, history_log, tn, td) ==
  IF SimilarMatch(new_event, history_log, tn, td) THEN FALSE ELSE TRUE

\* check_uniqueness on an already loaded history_log.
check_uniqueness(new_event, history_log, tn, td) ==
  IF HashMatch(new_event, history_log) THEN FALSE
  ELSE IF SimilarMatch(new_event, history_log, tn, td) THEN FALSE
  ELSE TRUE

\* ------------------------------------------------------------ history store
\* The persisted log: absent, a parsable JSON list of records, or an
\* unparsable (truncated) document holding the records written so far.
NoFile == [exists |-> FALSE, parsable |-> FALSE, recs |-> <<>>]

\* Mutant: the except clause of load_history_log lets the error out.
load_history_log_reraise(f) ==
  IF ~f.exists THEN [raised |-> FALSE, value |-> <<>>]
  ELSE IF f.parsable THEN [raised |-> FALSE, value |-> f.recs]
  ELSE [raised |-> TRUE, value |-> <<>>]

\* load_history_log: [] when the file is absent, [] when reading or parsing
\* raises, the list otherwise.  raised: whether an exception leaves the call.
load_history_log(f) ==
  IF ~f.exists THEN [raised |-> FALSE, value |-> <<>>]
  ELSE IF f.parsable THEN [raised |-> FALSE, value |-> f.recs]
  ELSE [raised |-> FALSE, value |-> <<>>]

\* save_history_log: open(..., 'w') truncates the file and json.dump streams
\* the list into it.  Outcomes: written in full; open() raised (file as it
\* was); a write raised after k records (file left truncated).
save_history_log(f, log) ==
  {[raised |-> FALSE, file |-> [exists |-> TRUE, parsable |-> TRUE, recs |-> log]]}
  \cup {[raised |-> TRUE, file |-> f]}
  \cup {[raised |-> TRUE,
         file |-> [exists |-> TRUE, parsable |-> FALSE, recs |-> SubSeq(log, 1, k)]]
        : k \in 0..Len(log)}

\* ------------------------------------------------------------- post text
Header(event) ==
  <<"cal", "vs16", " ">> \o event.date \o <<"\n", "pin", " ">> \o event.location
  \o <<"\n", "\n">>

format_post_text(event) ==
  LET post_text == Header(event) \o event.description
  IN IF Len(post_text) > PostCap
       THEN LET header == Header(event)
                available_chars == PostCap - Len(header) - EllipsisLen
                truncated_desc == Slice(event.description, available_chars)
                                  \o <<".", ".", ".">>
            IN header \o truncated_desc
       ELSE post_text

\* ------------------------------------------------------------ illustration
RECURSIVE Filter(_)
Filter(s) ==
  IF s = <<>> THEN <<>>
  ELSE (IF IsAlnum(Head(s)) \/ Head(s) \in {" ", "_"} THEN <<Head(s)>> ELSE <<>>)
       \o Filter(Tail(s))

RECURSIVE rstrip(_)
rstrip(s) ==
  IF s # <<>> /\ IsSpace(s[Len(s)]) THEN rstrip(SubSeq(s, 1, Len(s) - 1)) ELSE s

\* "".join(c for c in title if c.isalnum() or c in (' ', '_')).rstrip()
\*   .replace(' ', '_')[:50]
safe_title(event_title) ==
  LET kept == rstrip(Filter(event_title))
  IN Slice([i \in 1..Len(kept) |-> IF kept[i] = " " THEN "_" ELSE kept[i]], TitleMax)

\* f"{timestamp}_{safe_title}.png" under images_dir
ImagePath(now, event_title) == [timestamp |-> now, name |-> safe_title(event_title)]

\* ------------------------------------------------- events of the generator
required_fields == {"date", "location", "title", "description", "image_prompt"}

Ev(title, description, location) ==
  [date |-> <<"1", "9", "0", "0">>, location |-> location, title |-> title,
   description |-> description, image_prompt |-> <<"p">>]

\* tokens {a,b,c,d,e}
EvA == Ev(<<"A", " ", "b">>, <<"c", " ", "d">>, <<"e">>)
\* the same tokens as EvA under another fingerprint: similarity 1
EvA2 == Ev(<<"a", " ", " ", "b">>, <<"c", " ", "d">>, <<"e">>)
\* 4 of 6 tokens shared with EvA: similarity below 0.7
EvB == Ev(<<"a", " ", "b">>, <<"c", " ", "d">>, <<"f">>)
\* tokens {x,y,z}
EvX == Ev(<<"x">>, <<"y">>, <<"z">>)
\* 3 of 4 tokens shared with EvX: similarity 0.75
EvX2 == Ev(<<"x">>, <<"y", " ", "w">>, <<"z">>)
\* a response without image_prompt
EvBad == [date |-> <<"1">>, location |-> <<"e">>, title |-> <<"q">>,
          description |-> <<"r">>]

GenPool == {EvA, EvA2, EvB, EvX, EvX2, EvBad}

\* ------------------------------------- inputs of check_uniqueness alone
\* no token at all
EvEmpty == Ev(<<>>, <<" ">>, <<>>)
EvEmpty2 == Ev(<<" ">>, <<>>, <<"\t">>)
\* nine tokens a..i
Ev9 == Ev(<<"a", " ", "b", " ", "c">>, <<"d", " ", "e", " ", "f">>,
          <<"g", " ", "h", " ", "i">>)
\* a..h and j: 8 of the 10 tokens of the pair shared with Ev9
Ev8 == Ev(<<"a", " ", "b", " ", "c">>, <<"d", " ", "e", " ", "f">>,
          <<"g", " ", "h", " ", "j">>)
\* a..g and j: 7 of the 10 tokens of the pair shared with Ev9
Ev7 == Ev(<<"a", " ", "b", " ", "c">>, <<"d", " ", "e", " ", "f">>,
          <<"g", " ", "j">>)
\* two triples whose '|'-joined texts are the same text
EvP1 == Ev(<<"a", "|", "b">>, <<"c">>, <<"d">>)
EvP2 == Ev(<<"a">>, <<"b", "|", "c">>, <<"d">>)

CandPool == {EvA, EvA2, EvB, EvX, EvX2, EvEmpty, EvEmpty2, Ev9, EvP1, EvP2}

\* Mutant: the stored hash is taken over the fields in another order.
event_entry_swapped(ev, path, now) ==
  [timestamp |-> now, title |-> ev.title, date |-> ev.date, location |-> ev.location,
   description |-> ev.description, image_prompt |-> ev.image_prompt,
   image_path |-> path,
   hash |-> ev.title \o <<"|">> \o ev.location \o <<"|">> \o ev.description]

\* The entry run stores for an event (lines 281-290).
event_entry(ev, path, now) ==
  [timestamp |-> now, title |-> ev.title, date |-> ev.date, location |-> ev.location,
   description |-> ev.description, image_prompt |-> ev.image_prompt,
   image_path |-> path, hash |-> calculate_content_hash(ev)]

RecOf(ev) == event_entry(ev, ImagePath(0, ev.title), 0)
\* stored entries that lack fields
RecNoHash == [title |-> EvA.title, description |-> EvA.description,
              location |-> EvA.location]
RecNoTitle == [description |-> EvX.description, location |-> EvX.location,
               hash |-> calculate_content_hash(EvX)]
RecNoLocHash == [title |-> EvX.title, description |-> EvX.description]

RecPool == {RecOf(EvA), RecOf(EvB), RecOf(EvX), RecOf(EvEmpty), RecOf(Ev8), RecOf(Ev7),
            RecOf(EvP1), RecNoHash, RecNoTitle, RecNoLocHash}

HistPool == UNION {[1..n -> RecPool] : n \in 0..MaxHist}

\* thresholds 0, 1/2, 7/10, 4/5, 9/10, 1
Thresholds == {[n |-> 0, d |-> 1], [n |-> 1, d |-> 2], [n |-> 7, d |-> 10],
               [n |-> 4, d |-> 5], [n |-> 9, d |-> 10], [n |-> 1, d |-> 1]}

\* ------------------------------------- inputs of format_post_text alone
FormatLens == (0..MaxShort) \cup ((PostCap - MaxNear)..(PostCap + MaxNear))

Text(n, c) == [i \in 1..n |-> c]
DescText(n) == [i \in 1..n |-> IF i % 3 = 1 THEN "x" ELSE IF i % 3 = 2 THEN "y" ELSE " "]

FormatEvent(dl, ll, n) ==
  [date |-> Text(dl, "8"), location |-> Text(ll, "l"), title |-> <<"t">>,
   description |-> DescText(n), image_prompt |-> <<"p">>]

FormatPool == {FormatEvent(dl, ll, n) : dl \in FormatLens, ll \in 0..MaxShort,
                                        n \in FormatLens}

\* ------------------------------- inputs of calculate_content_hash alone
\* Characters of the fields, the delimiter among them.
HashAlphabet == {"a", "b", "|"}
FieldTexts == UNION {[1..n -> HashAlphabet] : n \in 0..MaxField}

\* Events over all triples of field texts, under two dates.
HashPool ==
  {[date |-> d, location |-> l, title |-> t, description |-> x, image_prompt |-> <<"p">>]
     : d \in {<<"1">>, <<"2">>}, l \in FieldTexts, t \in FieldTexts, x \in FieldTexts}

\* ------------------------------------------------------------------- state
Procs == {1, 2}
\* The processes of the sequential specification: one invocation at a time.
SeqProcs == {1}

VARIABLES
  file,         \* the persisted history_log.json
  cycles,       \* invocations of main() started so far
  pc,           \* per process: where main()/run() stands
  event,        \* run's local event
  image_path,   \* run's local image_path
  history_log,  \* run's local history_log (lines 280-291)
  result,       \* what main() returned: "none", "True", "False"
  outcome,      \* why the cycle ended
  caught,       \* where a raised exception was caught: none, run, main, escaped
  cyc,          \* per process: number of its current cycle (its clock)
  fileAtStart,  \* history: the persisted log when the cycle began
  calls,        \* history: calls made in this cycle, per collaborator
  rejects,      \* history: gate rejections in this cycle
  postRet,      \* history: what post_to_x returned in this cycle
  gateSeen,     \* history: what the last check_uniqueness loaded and answered
  recorded,     \* history: the entries of the cycles that returned True, in order
  trail,        \* history: the events each stage of this cycle was handed
  gCand, gHist, gThr, gAns,   \* check_uniqueness alone: its inputs and its answer
  fEvent, fText,              \* format_post_text alone: its input and its result
  hEvent, hDigest             \* calculate_content_hash alone: its input and its digest

runVars == <<file, cycles, pc, event, image_path, history_log, result, outcome,
             caught, cyc, fileAtStart, calls, rejects, postRet, gateSeen, recorded,
             trail>>
gateVars == <<gCand, gHist, gThr, gAns>>
formatVars == <<fEvent, fText>>
hashVars == <<hEvent, hDigest>>
vars == <<runVars, gateVars, formatVars, hashVars>>

NoEvent == [none |-> TRUE]
NoCalls == [gen |-> 0, gate |-> 0, image |-> 0, post |-> 0, save |-> 0]
NoGate == [file |-> NoFile, loaded |-> <<>>, raised |-> FALSE, answer |-> "none"]
\* gateHash: new_hash of the last check_uniqueness; accepted / rejected: the
\* candidates the gate answered for; illustrated / published: the events
\* handed to generate_image and to post_to_x.
NoTrail == [gateHash |-> None, accepted |-> NoEvent, rejected |-> {},
            illustrated |-> NoEvent, published |-> NoEvent]

InitRun ==
  /\ file = NoFile
  /\ cycles = 0
  /\ pc = [p \in Procs |-> "idle"]
  /\ event = [p \in Procs |-> NoEvent]
  /\ image_path = [p \in Procs |-> None]
  /\ history_log = [p \in Procs |-> <<>>]
  /\ result = [p \in Procs |-> "none"]
  /\ outcome = [p \in Procs |-> "none"]
  /\ caught = [p \in Procs |-> "none"]
  /\ cyc = [p \in Procs |-> 0]
  /\ fileAtStart = [p \in Procs |-> NoFile]
  /\ calls = [p \in Procs |-> NoCalls]
  /\ rejects = [p \in Procs |-> 0]
  /\ postRet = [p \in Procs |-> "none"]
  /\ gateSeen = [p \in Procs |-> NoGate]
  /\ recorded = <<>>
  /\ trail = [p \in Procs |-> NoTrail]

\* The harnesses of the pure functions, at rest.
InitGateIdle ==
  /\ gCand = NoEvent
  /\ gHist = <<>>
  /\ gThr = [n |-> ThresholdNum, d |-> ThresholdDen]
  /\ gAns = "none"

InitFormatIdle ==
  /\ fEvent = NoEvent
  /\ fText = None

InitHashIdle ==
  /\ hEvent = NoEvent
  /\ hDigest = None

Init == InitRun /\ InitGateIdle /\ InitFormatIdle /\ InitHashIdle

Called(p, what) == calls' = [calls EXCEPT ![p][what] = @ + 1]

\* run's "return False" / "return True" (lines 270, 295, 298), returned by main.
run_return(p, value, why) ==
  /\ pc' = [pc EXCEPT ![p] = "done"]
  /\ result' = [result EXCEPT ![p] = value]
  /\ outcome' = [outcome EXCEPT ![p] = why]
  /\ UNCHANGED caught

\* Mutant: run's except clause does not catch the error; main's does.
run_except_narrow(p, why) ==
  /\ pc' = [pc EXCEPT ![p] = "done"]
  /\ result' = [result EXCEPT ![p] = "False"]
  /\ outcome' = [outcome EXCEPT ![p] = why]
  /\ caught' = [caught EXCEPT ![p] = "main"]

\* run's "except Exception: ... return False" (lines 300-302).
run_except(p, why) ==
  /\ pc' = [pc EXCEPT ![p] = "done"]
  /\ result' = [result EXCEPT ![p] = "False"]
  /\ outcome' = [outcome EXCEPT ![p] = why]
  /\ caught' = [caught EXCEPT ![p] = "run"]

\* main(): the environment check, the construction of the bot, the call of run.
main(p) ==
  /\ pc[p] \in {"idle", "done"}
  /\ cycles < MaxCycles
  /\ cycles' = cycles + 1
  /\ cyc' = [cyc EXCEPT ![p] = cycles + 1]
  /\ event' = [event EXCEPT ![p] = NoEvent]
  /\ image_path' = [image_path EXCEPT ![p] = None]
  /\ history_log' = [history_log EXCEPT ![p] = <<>>]
  /\ fileAtStart' = [fileAtStart EXCEPT ![p] = file]
  /\ calls' = [calls EXCEPT ![p] = NoCalls]
  /\ rejects' = [rejects EXCEPT ![p] = 0]
  /\ postRet' = [postRet EXCEPT ![p] = "none"]
  /\ gateSeen' = [gateSeen EXCEPT ![p] = NoGate]
  /\ trail' = [trail EXCEPT ![p] = NoTrail]
  /\ \E env \in {"missing_vars", "init_raises", "ok"} :
       CASE env = "missing_vars" ->
              /\ pc' = [pc EXCEPT ![p] = "done"]
              /\ result' = [result EXCEPT ![p] = "False"]
              /\ outcome' = [outcome EXCEPT ![p] = "missing environment"]
              /\ caught' = [caught EXCEPT ![p] = "none"]
         [] env = "init_raises" ->
              /\ pc' = [pc EXCEPT ![p] = "done"]
              /\ result' = [result EXCEPT ![p] = "False"]
              /\ outcome' = [outcome EXCEPT ![p] = "application failed"]
              /\ caught' = [caught EXCEPT ![p] = "main"]
         [] OTHER ->
              /\ pc' = [pc EXCEPT ![p] = "gen1"]
              /\ result' = [result EXCEPT ![p] = "none"]
              /\ outcome' = [outcome EXCEPT ![p] = "none"]
              /\ caught' = [caught EXCEPT ![p] = "none"]
  /\ UNCHANGED <<file, recorded, gateVars, formatVars, hashVars>>

\* Mutant: a response that lacks a field is asked for again.
generate_event_retry(p) ==
  /\ pc[p] \in {"gen1", "gen2"}
  /\ Called(p, "gen")
  /\ \E r \in GenPool \cup {[api_error |-> TRUE]} :
       IF "api_error" \in DOMAIN r
         THEN run_except(p, "generation error") /\ UNCHANGED event
       ELSE IF ~(required_fields \subseteq DOMAIN r)
         THEN UNCHANGED <<pc, result, outcome, caught, event>>
       ELSE /\ event' = [event EXCEPT ![p] = r]
            /\ pc' = [pc EXCEPT ![p] = IF pc[p] = "gen1" THEN "gate1" ELSE "gate2"]
            /\ UNCHANGED <<result, outcome, caught>>
  /\ UNCHANGED <<file, cycles, image_path, history_log, cyc, fileAtStart, rejects,
                 postRet, gateSeen, recorded, trail, gateVars, formatVars, hashVars>>

\* generate_event (lines 260 and 267): the API call or the parsing raises, the
\* response lacks a required field (ValueError), or the event is returned.
generate_event(p) ==
  /\ pc[p] \in {"gen1", "gen2"}
  /\ Called(p, "gen")
  /\ \E r \in GenPool \cup {[api_error |-> TRUE]} :
       IF "api_error" \in DOMAIN r
         THEN run_except(p, "generation error") /\ UNCHANGED event
       ELSE IF ~(required_fields \subseteq DOMAIN r)
         THEN run_except(p, "validation error") /\ UNCHANGED event
       ELSE /\ event' = [event EXCEPT ![p] = r]
            /\ pc' = [pc EXCEPT ![p] = IF pc[p] = "gen1" THEN "gate1" ELSE "gate2"]
            /\ UNCHANGED <<result, outcome, caught>>
  /\ UNCHANGED <<file, cycles, image_path, history_log, cyc, fileAtStart, rejects,
                 postRet, gateSeen, recorded, trail, gateVars, formatVars, hashVars>>

\* Mutant: every rejection is answered by another generation.
on_reject_again(p) ==
  /\ pc' = [pc EXCEPT ![p] = "gen2"]
  /\ UNCHANGED <<result, outcome, caught>>

\* Mutant: after the second rejection the cycle goes on with the candidate.
on_reject_proceed(p) ==
  /\ pc' = [pc EXCEPT ![p] = IF pc[p] = "gate1" THEN "gen2" ELSE "illustrate"]
  /\ UNCHANGED <<result, outcome, caught>>

\* run after a rejection: at line 264 generate once more (line 267), at line 268
\* give up (lines 269-270).
on_reject(p) ==
  IF pc[p] = "gate1"
    THEN /\ pc' = [pc EXCEPT ![p] = "gen2"]
         /\ UNCHANGED <<result, outcome, caught>>
    ELSE run_return(p, "False", "novelty exhausted")

\* check_uniqueness(event) at lines 264 and 268, and what run does with the answer.
gate(p) ==
  /\ pc[p] \in {"gate1", "gate2"}
  /\ Called(p, "gate")
  /\ LET loaded == load_history_log(file)
         ok == check_uniqueness(event[p], loaded.value, ThresholdNum, ThresholdDen)
     IN IF loaded.raised
          THEN /\ run_except(p, "load error")
               /\ gateSeen' = [gateSeen EXCEPT ![p] =
                    [file |-> file, loaded |-> <<>>, raised |-> TRUE, answer |-> "none"]]
               /\ UNCHANGED <<rejects, trail>>
          ELSE /\ gateSeen' = [gateSeen EXCEPT ![p] =
                    [file |-> file, loaded |-> loaded.value, raised |-> FALSE,
                     answer |-> IF ok THEN "accept" ELSE "reject"]]
               /\ trail' = [trail EXCEPT
                    ![p].gateHash = calculate_content_hash(event[p]),
                    ![p].accepted = IF ok THEN event[p] ELSE @,
                    ![p].rejected = IF ok THEN @ ELSE @ \cup {event[p]}]
               /\ IF ok
                    THEN /\ pc' = [pc EXCEPT ![p] = "illustrate"]
                         /\ UNCHANGED <<result, outcome, caught, rejects>>
                    ELSE /\ rejects' = [rejects EXCEPT ![p] = @ + 1]
                         /\ on_reject(p)
  /\ UNCHANGED <<file, cycles, event, image_path, history_log, cyc, fileAtStart,
                 postRet, recorded, gateVars, formatVars, hashVars>>

\* generate_image(event['image_prompt'], event['title']) (line 274).
generate_image(p) ==
  /\ pc[p] = "illustrate"
  /\ Called(p, "image")
  /\ trail' = [trail EXCEPT ![p].illustrated = event[p]]
  /\ \E ok \in BOOLEAN :
       IF ok
         THEN /\ image_path' = [image_path EXCEPT ![p] = ImagePath(cyc[p], event[p].title)]
              /\ pc' = [pc EXCEPT ![p] = "publish"]
              /\ UNCHANGED <<result, outcome, caught>>
         ELSE run_except(p, "illustration error") /\ UNCHANGED image_path
  /\ UNCHANGED <<file, cycles, event, history_log, cyc, fileAtStart, rejects,
                 postRet, gateSeen, recorded, gateVars, formatVars, hashVars>>

\* Mutant: run records whatever post_to_x returned.
post_to_x_unchecked(p) ==
  /\ pc[p] = "publish"
  /\ Called(p, "post")
  /\ trail' = [trail EXCEPT ![p].published = event[p]]
  /\ \E r \in {"posted", "raised", "no_data"} :
       /\ postRet' = [postRet EXCEPT ![p] = IF r = "posted" THEN "True" ELSE "False"]
       /\ pc' = [pc EXCEPT ![p] = "record"]
       /\ UNCHANGED <<result, outcome, caught>>
  /\ UNCHANGED <<file, cycles, event, image_path, history_log, cyc, fileAtStart,
                 rejects, gateSeen, recorded, gateVars, formatVars, hashVars>>

\* post_to_x (line 278): True when the tweet was created and acknowledged;
\* False when upload or posting raised, or the response carried no data.
post_to_x(p) ==
  /\ pc[p] = "publish"
  /\ Called(p, "post")
  /\ trail' = [trail EXCEPT ![p].published = event[p]]
  /\ \E r \in {"posted", "raised", "no_data"} :
       IF r = "posted"
         THEN /\ postRet' = [postRet EXCEPT ![p] = "True"]
              /\ pc' = [pc EXCEPT ![p] = "record"]
              /\ UNCHANGED <<result, outcome, caught>>
         ELSE /\ postRet' = [postRet EXCEPT ![p] = "False"]
              /\ run_return(p, "False", "publish error")
  /\ UNCHANGED <<file, cycles, event, image_path, history_log, cyc, fileAtStart,
                 rejects, gateSeen, recorded, gateVars, formatVars, hashVars>>

\* history_log = self.load_history_log(); history_log.append(event_entry)
record(p) ==
  /\ pc[p] = "record"
  /\ LET loaded == load_history_log(file)
     IN IF loaded.raised
          THEN run_except(p, "load error") /\ UNCHANGED history_log
          ELSE /\ history_log' = [history_log EXCEPT ![p] =
                    Append(loaded.value, event_entry(event[p], image_path[p], cyc[p]))]
               /\ pc' = [pc EXCEPT ![p] = "save"]
               /\ UNCHANGED <<result, outcome, caught>>
  /\ UNCHANGED <<file, cycles, event, image_path, cyc, fileAtStart, calls, rejects,
                 postRet, gateSeen, recorded, trail, gateVars, formatVars, hashVars>>

\* Mutant: the save loads the store again and appends to what it finds.
save_merge(p) ==
  /\ pc[p] = "save"
  /\ Called(p, "save")
  /\ LET merged == Append(load_history_log(file).value,
                          history_log[p][Len(history_log[p])])
     IN \E o \in save_history_log(file, merged) :
          /\ file' = o.file
          /\ IF o.raised
               THEN run_except(p, "record-save error") /\ UNCHANGED recorded
               ELSE /\ run_return(p, "True", "DONE")
                    /\ recorded' = Append(recorded, merged[Len(merged)])
  /\ UNCHANGED <<cycles, event, image_path, history_log, cyc, fileAtStart, rejects,
                 postRet, gateSeen, trail, gateVars, formatVars, hashVars>>

\* Mutant: run returns True although the save raised.
save_swallow(p) ==
  /\ pc[p] = "save"
  /\ Called(p, "save")
  /\ \E o \in save_history_log(file, history_log[p]) :
       /\ file' = o.file
       /\ run_return(p, "True", "DONE")
       /\ recorded' = IF o.raised THEN recorded
                      ELSE Append(recorded, history_log[p][Len(history_log[p])])
  /\ UNCHANGED <<cycles, event, image_path, history_log, cyc, fileAtStart, rejects,
                 postRet, gateSeen, trail, gateVars, formatVars, hashVars>>

\* Mutant: a save that raised is tried again.
save_retry(p) ==
  /\ pc[p] = "save"
  /\ Called(p, "save")
  /\ \E o \in save_history_log(file, history_log[p]) :
       /\ file' = o.file
       /\ IF o.raised
            THEN UNCHANGED <<pc, result, outcome, caught, recorded>>
            ELSE /\ run_return(p, "True", "DONE")
                 /\ recorded' = Append(recorded, history_log[p][Len(history_log[p])])
  /\ UNCHANGED <<cycles, event, image_path, history_log, cyc, fileAtStart, rejects,
                 postRet, gateSeen, trail, gateVars, formatVars, hashVars>>

\* self.save_history_log(history_log); return True (lines 292-295).
save(p) ==
  /\ pc[p] = "save"
  /\ Called(p, "save")
  /\ \E o \in save_history_log(file, history_log[p]) :
       /\ file' = o.file
       /\ IF o.raised
            THEN run_except(p, "record-save error") /\ UNCHANGED recorded
            ELSE /\ run_return(p, "True", "DONE")
                 /\ recorded' = Append(recorded, history_log[p][Len(history_log[p])])
  /\ UNCHANGED <<cycles, event, image_path, history_log, cyc, fileAtStart, rejects,
                 postRet, gateSeen, trail, gateVars, formatVars, hashVars>>

Step(p) ==
  \/ main(p)
  \/ generate_event(p)
  \/ gate(p)
  \/ generate_image(p)
  \/ post_to_x(p)
  \/ record(p)
  \/ save(p)

\* Strictly sequential execution: one process, one cycle after the other.
Next == \E p \in SeqProcs : Step(p)

Spec == Init /\ [][Next]_vars

\* Two invocations of the program against the same store, each running its
\* one cycle, their steps interleaved in any order; nothing in the code
\* excludes one from the other.
mainOnce(p) == pc[p] = "idle" /\ main(p)

StepConc(p) ==
  \/ mainOnce(p)
  \/ generate_event(p)
  \/ gate(p)
  \/ generate_image(p)
  \/ post_to_x(p)
  \/ record(p)
  \/ save(p)

NextConc == \E p \in Procs : StepConc(p)

SpecConc == Init /\ [][NextConc]_vars

\* ---------------------------------------------- check_uniqueness alone
InitGate ==
  /\ InitRun /\ InitFormatIdle /\ InitHashIdle
  /\ gCand \in CandPool
  /\ gHist \in HistPool
  /\ gThr \in Thresholds
  /\ gAns = "none"

CheckUniqueness ==
  /\ gAns = "none"
  /\ gAns' = IF check_uniqueness(gCand, gHist, gThr.n, gThr.d) THEN "True" ELSE "False"
  /\ UNCHANGED <<gCand, gHist, gThr, runVars, formatVars, hashVars>>

NextGate == CheckUniqueness

SpecGate == InitGate /\ [][NextGate]_vars

\* ---------------------------------------------- format_post_text alone
InitFormat ==
  /\ InitRun /\ InitGateIdle /\ InitHashIdle
  /\ fEvent \in FormatPool
  /\ fText = None

FormatPostText ==
  /\ fText = None
  /\ fText' = format_post_text(fEvent)
  /\ UNCHANGED <<fEvent, runVars, gateVars, hashVars>>

NextFormat == FormatPostText

SpecFormat == InitFormat /\ [][NextFormat]_vars

\* ---------------------------------------- calculate_content_hash alone
InitHash ==
  /\ InitRun /\ InitGateIdle /\ InitFormatIdle
  /\ hEvent \in HashPool
  /\ hDigest = None

CalculateContentHash ==
  /\ hDigest = None
  /\ hDigest' = calculate_content_hash(hEvent)
  /\ UNCHANGED <<hEvent, runVars, gateVars, formatVars>>

NextHash == CalculateContentHash

SpecHash == InitHash /\ [][NextHash]_vars

\* ------------------------------------------------------------------ claims
IsPrefix(a, b) == Len(a) <= Len(b) /\ SubSeq(b, 1, Len(a)) = a

\* What a load of the persisted log returns.
Loaded(f) == load_history_log(f).value

Active(p) == pc[p] # "idle"

\* C1: when post_to_x reports failure the cycle returns False and the persisted
\* log is what it was when the cycle began; as long as post_to_x has not
\* returned True in a cycle, that cycle has not touched the log.
C1_FailedPublishLeavesLog ==
  \A p \in Procs : Active(p) =>
    /\ (postRet[p] # "True" => file = fileAtStart[p])
    /\ (postRet[p] = "False" => pc[p] = "done" /\ result[p] = "False")

C1_Witness ==
  /\ pc[1] = "done" /\ postRet[1] = "False" /\ result[1] = "False"
  /\ Len(Loaded(file)) >= 1

\* C2: a rejection is followed by exactly one re-generation and one re-gate; a
\* second rejection ends the cycle with False and the log as it was; no cycle
\* calls generate_event or check_uniqueness more than twice.
C2_SingleRetry ==
  \A p \in Procs : Active(p) =>
    /\ calls[p].gen <= 2 /\ calls[p].gate <= 2 /\ rejects[p] <= 2
    /\ (rejects[p] >= 1 /\ pc[p] # "gen2" => calls[p].gen = 2)
    /\ (rejects[p] >= 1 /\ pc[p] \notin {"gen2", "gate2"}
          /\ outcome[p] \notin {"generation error", "validation error"}
          => calls[p].gate = 2)
    /\ (rejects[p] = 1 /\ pc[p] = "gen2" => calls[p].gen = 1 /\ calls[p].gate = 1)
    /\ (rejects[p] = 2 =>
          /\ pc[p] = "done" /\ result[p] = "False"
          /\ outcome[p] = "novelty exhausted"
          /\ file = fileAtStart[p]
          /\ calls[p].image = 0 /\ calls[p].post = 0 /\ calls[p].save = 0)

C2_Witness ==
  /\ pc[1] = "done" /\ rejects[1] = 2 /\ result[1] = "False"
  /\ calls[1].gen = 2 /\ calls[1].gate = 2
  /\ Len(Loaded(file)) >= 1 /\ file = fileAtStart[1]

\* C5 (as claimed): a load after a successful RECORD step ends with the appended
\* record and is one longer than the load before the step, and the log holds
\* exactly the records of the cycles that returned True, in the order they ran.
C5_RecordedCyclesAreTheLog ==
  /\ \A p \in Procs : pc[p] = "done" /\ result[p] = "True" =>
        LET after == Loaded(file)
            before == Loaded(fileAtStart[p])
        IN /\ Len(after) = Len(before) + 1
           /\ after[Len(after)] = event_entry(event[p], image_path[p], cyc[p])
  /\ Loaded(file) = recorded

\* The first half of C5 alone: what a successful RECORD step leaves.
C5_SuccessfulRecordAppends ==
  \A p \in Procs : pc[p] = "done" /\ result[p] = "True" =>
    LET after == Loaded(file)
        before == Loaded(fileAtStart[p])
    IN /\ Len(after) = Len(before) + 1
       /\ after[Len(after)] = event_entry(event[p], image_path[p], cyc[p])
       /\ IsPrefix(before, after)

\* C6 (as claimed): append-only.  What was loadable when a cycle began is a
\* prefix of what is loadable at every later point of that cycle, and every
\* step of the program extends (or keeps) the loadable log.
C6_AppendOnly ==
  \A p \in Procs : Active(p) => IsPrefix(Loaded(fileAtStart[p]), Loaded(file))

\* C7: load_history_log never raises; on an absent or unparsable log it returns
\* the empty list, the gate then accepts the candidate whatever it is, and the
\* RECORD step starts from the empty list.
C7_LoadNeverFails ==
  \A p \in Procs : Active(p) =>
    /\ ~gateSeen[p].raised
    /\ outcome[p] # "load error"
    /\ (gateSeen[p].answer # "none"
          /\ (~gateSeen[p].file.exists \/ ~gateSeen[p].file.parsable)
          => gateSeen[p].loaded = <<>> /\ gateSeen[p].answer = "accept")
    /\ (pc[p] = "save" /\ (~file.exists \/ ~file.parsable)
          => history_log[p] = <<event_entry(event[p], image_path[p], cyc[p])>>)

\* An unparsable log holding the very record of the candidate: accepted all the same.
C7_Witness ==
  /\ pc[1] = "illustrate"
  /\ gateSeen[1].file.exists /\ ~gateSeen[1].file.parsable
  /\ HashMatch(event[1], gateSeen[1].file.recs)
  /\ gateSeen[1].answer = "accept"

FailureOutcomes ==
  {"generation error", "validation error", "novelty exhausted", "illustration error",
   "publish error", "record-save error"}
RaisedOutcomes ==
  {"generation error", "validation error", "illustration error", "record-save error"}

\* C9: a cycle ends in exactly one of DONE (True) and FAIL (False); every error
\* raised at a stage of run is caught by run and turned into False; an error of
\* the construction is caught by main; nothing escapes.
C9_OneTerminalOutcome ==
  \A p \in Procs : Active(p) =>
    /\ caught[p] \in {"none", "run", "main"}
    /\ (pc[p] = "done" <=> result[p] \in {"True", "False"})
    /\ (pc[p] = "done" <=> outcome[p] # "none")
    /\ (result[p] = "True" <=> outcome[p] = "DONE")
    /\ (outcome[p] \in FailureOutcomes => result[p] = "False")
    /\ (outcome[p] \in RaisedOutcomes <=> caught[p] = "run")
    /\ (caught[p] = "main" <=> outcome[p] = "application failed")
    /\ (outcome[p] \in FailureOutcomes \cup {"DONE", "none", "missing environment",
                                             "application failed"})

C9_Witness ==
  /\ pc[1] = "done" /\ outcome[1] = "record-save error"
  /\ result[1] = "False" /\ caught[1] = "run"

\* C10: an event lacking a required field ends the cycle at once, on the first
\* generation and on the retry; the only call a cycle repeats is the one
\* generation (and gate) that follows a novelty rejection.
C10_NothingElseRetried ==
  \A p \in Procs : Active(p) =>
    /\ calls[p].image <= 1 /\ calls[p].post <= 1 /\ calls[p].save <= 1
    /\ calls[p].gen <= rejects[p] + 1
    /\ calls[p].gate <= calls[p].gen
    /\ rejects[p] <= calls[p].gate
    /\ (outcome[p] \in {"validation error", "generation error"} =>
          /\ pc[p] = "done" /\ result[p] = "False"
          /\ calls[p].gen = rejects[p] + 1 /\ calls[p].gate = rejects[p]
          /\ calls[p].image = 0 /\ calls[p].post = 0 /\ calls[p].save = 0)
    /\ (outcome[p] = "illustration error" => calls[p].image = 1 /\ calls[p].post = 0)
    /\ (outcome[p] = "publish error" => calls[p].post = 1 /\ calls[p].save = 0)
    /\ (outcome[p] = "record-save error" => calls[p].save = 1)

\* A retry generation that lacks a field: two generations, no third.
C10_Witness ==
  /\ pc[1] = "done" /\ outcome[1] = "validation error"
  /\ calls[1].gen = 2 /\ rejects[1] = 1

\* Some stored fingerprint equals the candidate's.
FingerprintMatch ==
  \E i \in DOMAIN gHist :
    "hash" \in DOMAIN gHist[i] /\ gHist[i].hash = calculate_content_hash(gCand)

\* The words of a text, said without split(): the maximal runs of characters
\* that are not whitespace, lower-cased.
ClaimTokens(s) ==
  LET t == lower(s)
  IN {SubSeq(t, i, j) : <<i, j>> \in
        {ij \in (1..Len(t)) \X (1..Len(t)) :
           /\ ij[1] <= ij[2]
           /\ \A k \in ij[1]..ij[2] : ~IsSpace(t[k])
           /\ (ij[1] = 1 \/ IsSpace(t[ij[1] - 1]))
           /\ (ij[2] = Len(t) \/ IsSpace(t[ij[2] + 1]))}}

ClaimWords(e) ==
  ClaimTokens(Get(e, "title", <<>>)) \cup ClaimTokens(Get(e, "description", <<>>))
  \cup ClaimTokens(Get(e, "location", <<>>))

\* |a \cap b| / |a \cup b| > t.n / t.d
JaccardAbove(a, b, t) ==
  /\ Cardinality(a \cup b) > 0
  /\ Cardinality(a \cap b) * t.d > t.n * Cardinality(a \cup b)

SomeRecordAbove ==
  \E i \in DOMAIN gHist : JaccardAbove(ClaimWords(gCand), ClaimWords(gHist[i]), gThr)

\* C3: a candidate whose fingerprint equals a stored fingerprint is rejected,
\* whatever the threshold and whatever its similarity to the stored records.
C3_FingerprintMatchRejects ==
  gAns # "none" /\ FingerprintMatch => gAns = "False"

\* Rejected on the fingerprint alone: no record is similar beyond the threshold.
C3_Witness ==
  /\ gAns = "False" /\ FingerprintMatch /\ ~SomeRecordAbove
  /\ gThr = [n |-> ThresholdNum, d |-> ThresholdDen]

\* C4: without a fingerprint match the gate rejects exactly when some record's
\* Jaccard similarity is strictly above the threshold; an empty history
\* accepts; the pair sharing 8 of 10 tokens is rejected at 0.7 and accepted at
\* 0.9 (and at 0.8, its own similarity).
C4_SimilarityDecides ==
  gAns # "none" =>
    /\ (~FingerprintMatch => (gAns = "False" <=> SomeRecordAbove))
    /\ (gHist = <<>> => gAns = "True")
    /\ (gCand = Ev9 /\ gHist = <<RecOf(Ev8)>> =>
          /\ Cardinality(ClaimWords(Ev9) \cap ClaimWords(Ev8)) = 8
          /\ Cardinality(ClaimWords(Ev9) \cup ClaimWords(Ev8)) = 10
          /\ (gThr = [n |-> 7, d |-> 10] => gAns = "False")
          /\ (gThr = [n |-> 9, d |-> 10] => gAns = "True")
          /\ (gThr = [n |-> 4, d |-> 5] => gAns = "True"))

\* A similarity of exactly the threshold (7 of 10 tokens at 0.7) is accepted.
C4_Witness ==
  /\ gCand = Ev9 /\ gHist = <<RecOf(Ev7)>> /\ gThr = [n |-> 7, d |-> 10]
  /\ Cardinality(ClaimWords(Ev9) \cap ClaimWords(Ev7)) * 10
       = 7 * Cardinality(ClaimWords(Ev9) \cup ClaimWords(Ev7))
  /\ gAns = "True"

\* C8 (as claimed): the post text is at most 280 characters long for every
\* event, and a composition above 280 comes out as the header, a prefix of
\* the description and "...".
C8_PostWithinCap ==
  fText # None =>
    /\ Len(fText) <= PostCap
    /\ (Len(Header(fEvent)) + Len(fEvent.description) > PostCap =>
          \E k \in 0..Len(fEvent.description) :
            fText = Header(fEvent) \o SubSeq(fEvent.description, 1, k)
                    \o <<".", ".", ".">>)

\* The second half of C8 alone, and the cap where the header leaves room for "...".
C8_TruncationShape ==
  fText # None =>
    /\ (Len(Header(fEvent)) + EllipsisLen <= PostCap => Len(fText) <= PostCap)
    /\ (Len(Header(fEvent)) + Len(fEvent.description) > PostCap =>
          \E k \in 0..Len(fEvent.description) :
            fText = Header(fEvent) \o SubSeq(fEvent.description, 1, k)
                    \o <<".", ".", ".">>)

Triple(e) == <<e.title, e.description, e.location>>
HasDelimiter(e) ==
  \E k \in 1..3 : \E i \in DOMAIN Triple(e)[k] : Triple(e)[k][i] = "|"

\* C11 (as claimed): the digest is a function of (title, description, location):
\* an event with the same triple has the same digest, and an event whose
\* triple differs in any field has another digest, also for fields that
\* contain the delimiter.
C11_DigestIdentifiesTriple ==
  hDigest # None =>
    \A e \in HashPool :
      /\ (Triple(e) = Triple(hEvent) => calculate_content_hash(e) = hDigest)
      /\ (Triple(e) # Triple(hEvent) => calculate_content_hash(e) # hDigest)

\* What holds of C11: equal triples give equal digests whatever the other
\* fields, and different triples give different digests when no field of
\* either holds the delimiter.
C11_DelimiterFreeTriples ==
  hDigest # None =>
    \A e \in HashPool :
      /\ (Triple(e) = Triple(hEvent) => calculate_content_hash(e) = hDigest)
      /\ (Triple(e) # Triple(hEvent) /\ ~HasDelimiter(e) /\ ~HasDelimiter(hEvent)
            => calculate_content_hash(e) # hDigest)

\* C12 (as claimed): a save is atomic for later loads.  Once a cycle has called
\* save_history_log, however the call ended, a load returns the complete log
\* of before the cycle or the complete updated log.
C12_SaveIsAtomic ==
  \A p \in Procs : Active(p) /\ calls[p].save >= 1 =>
    \/ Loaded(file) = Loaded(fileAtStart[p])
    \/ Loaded(file) = history_log[p]

\* What holds of C12: a save that returns leaves the updated log, and a save
\* that raised leaves the prior log or nothing loadable.
C12_SaveOutcomes ==
  \A p \in Procs : Active(p) /\ calls[p].save >= 1 =>
    /\ (result[p] = "True" => Loaded(file) = history_log[p])
    /\ (result[p] = "False" => Loaded(file) \in {Loaded(fileAtStart[p]), <<>>})

Last(q) == q[Len(q)]

\* C13: every record of the persisted log carries the hash of its own title,
\* description and location, and the hash a cycle records is the one the gate
\* computed for the candidate it accepted.
C13_LogIsSelfVerifying ==
  /\ \A i \in DOMAIN file.recs :
        file.recs[i].hash = calculate_content_hash(file.recs[i])
  /\ \A p \in Procs : Active(p) /\ (pc[p] = "save" \/ calls[p].save >= 1) =>
        /\ trail[p].accepted = event[p]
        /\ trail[p].gateHash # None
        /\ Last(history_log[p]).hash = trail[p].gateHash

C13_Witness ==
  /\ pc[1] = "done" /\ result[1] = "True"
  /\ file.parsable /\ Len(file.recs) >= 2
  /\ Last(file.recs).hash = trail[1].gateHash

\* C14: the stages come in the order GENERATE, GATE, ILLUSTRATE, PUBLISH,
\* RECORD.  generate_image is called only once the gate accepted a candidate,
\* post_to_x only once generate_image returned, the store is saved only once
\* post_to_x returned True, and the three stages work on the accepted
\* candidate, never on a rejected one.
C14_StageOrder ==
  \A p \in Procs : Active(p) =>
    /\ (calls[p].gate >= 1 => calls[p].gen >= 1)
    /\ (pc[p] = "illustrate" \/ calls[p].image >= 1 =>
          /\ calls[p].gate >= 1
          /\ trail[p].accepted # NoEvent
          /\ trail[p].accepted = event[p]
          /\ trail[p].accepted \notin trail[p].rejected)
    /\ (calls[p].image >= 1 => trail[p].illustrated = trail[p].accepted)
    /\ (pc[p] = "publish" \/ calls[p].post >= 1 =>
          /\ calls[p].image = 1
          /\ image_path[p] = ImagePath(cyc[p], trail[p].accepted.title))
    /\ (calls[p].post >= 1 => trail[p].published = trail[p].accepted)
    /\ (pc[p] \in {"record", "save"} \/ calls[p].save >= 1 =>
          /\ calls[p].post = 1
          /\ postRet[p] = "True")
    /\ (pc[p] = "save" \/ calls[p].save >= 1 =>
          Last(history_log[p]) = event_entry(trail[p].accepted, image_path[p], cyc[p]))
    /\ (calls[p].image = 0 => trail[p].illustrated = NoEvent)
    /\ (calls[p].post = 0 => trail[p].published = NoEvent /\ postRet[p] = "none")
    /\ (calls[p].save = 0 => file = fileAtStart[p])

C14_Witness ==
  /\ pc[1] = "done" /\ result[1] = "True"
  /\ trail[1].rejected # {}
  /\ trail[1].illustrated = trail[1].accepted
  /\ trail[1].published = trail[1].accepted
  /\ file.parsable /\ Last(file.recs).title = trail[1].accepted.title

\* A step that writes the store is the one save_history_log call of a cycle
\* that is in RECORD after post_to_x returned True.
WriteIsTheRecordSave ==
  file' # file =>
    \E p \in Procs :
      /\ pc[p] = "save" /\ pc'[p] = "done"
      /\ postRet[p] = "True"
      /\ calls[p].save = 0 /\ calls'[p].save = 1

\* C15: the store is written at most once per cycle, and only in RECORD of a
\* cycle whose publish succeeded.  A cycle that fails with a generation,
\* validation or illustration error leaves the store as it was, and the gate
\* reads the store without writing it.
C15_StoreWrittenOnlyAtRecord ==
  /\ [](\A p \in Procs : Active(p) =>
          /\ calls[p].save <= 1
          /\ (calls[p].save = 1 => postRet[p] = "True")
          /\ (outcome[p] \in {"generation error", "validation error",
                               "illustration error", "novelty exhausted"}
                => calls[p].save = 0 /\ file = fileAtStart[p])
          /\ (gateSeen[p] # NoGate /\ calls[p].save = 0 => file = gateSeen[p].file))
  /\ [][WriteIsTheRecordSave]_vars

C15_Witness ==
  /\ pc[1] = "done" /\ outcome[1] = "illustration error"
  /\ gateSeen[1].answer = "accept"
  /\ file.parsable /\ Len(file.recs) >= 1
  /\ file = fileAtStart[1]

\* A stored record with each missing text field put in as the empty text.
Filled(rec) ==
  [k \in {"title", "description", "location"} \cup (DOMAIN rec \cap {"hash"}) |->
     IF k \in DOMAIN rec THEN rec[k] ELSE <<>>]

FilledWords(rec) ==
  ClaimTokens(Filled(rec).title) \cup ClaimTokens(Filled(rec).description)
  \cup ClaimTokens(Filled(rec).location)

CandWords ==
  ClaimTokens(gCand.title) \cup ClaimTokens(gCand.description)
  \cup ClaimTokens(gCand.location)

LacksField(rec) ==
  ~({"title", "description", "location", "hash"} \subseteq DOMAIN rec)

\* C16: check_uniqueness answers on a history whose records lack title,
\* description, location or hash, and the answer is the one for the history
\* with the missing text fields put in as empty texts; a record without a hash
\* matches no fingerprint.
C16_MissingFieldsReadEmpty ==
  gAns # "none" =>
    /\ gAns \in {"True", "False"}
    /\ gAns = "False" <=>
          \/ \E i \in DOMAIN gHist :
                /\ "hash" \in DOMAIN gHist[i]
                /\ gHist[i].hash = calculate_content_hash(gCand)
          \/ \E i \in DOMAIN gHist :
                JaccardAbove(CandWords, FilledWords(gHist[i]), gThr)
    /\ ((\A i \in DOMAIN gHist : "hash" \notin DOMAIN gHist[i]) =>
          (gAns = "False" <=>
             \E i \in DOMAIN gHist :
               JaccardAbove(CandWords, FilledWords(gHist[i]), gThr)))

\* The record without location and hash rejects the candidate on the two
\* words it has: 2 of 3 tokens shared, above 1/2.
C16_Witness ==
  /\ gCand = EvX /\ gHist = <<RecNoLocHash>> /\ gThr = [n |-> 1, d |-> 2]
  /\ LacksField(gHist[1])
  /\ gAns = "False"

\* C17: when the candidate and a record have no token at all and their
\* fingerprints differ, the similarity is 0 (nothing is divided by zero) and
\* the record causes no rejection at any threshold >= 0: a history of such
\* records accepts the candidate.
C17_EmptyTokenSets ==
  gAns # "none" /\ CandWords = {} =>
    /\ \A i \in DOMAIN gHist : FilledWords(gHist[i]) = {} =>
          /\ Cardinality(new_words(gCand) \cup existing_words(gHist[i])) = 0
          /\ ~SimilarityExceeds(new_words(gCand), existing_words(gHist[i]),
                                gThr.n, gThr.d)
    /\ ((\A i \in DOMAIN gHist : FilledWords(gHist[i]) = {}) /\ ~FingerprintMatch
          => gAns = "True")

\* threshold 0, an empty candidate against an empty record of another fingerprint
C17_Witness ==
  /\ gCand = EvEmpty2 /\ gHist = <<RecOf(EvEmpty)>> /\ gThr = [n |-> 0, d |-> 1]
  /\ CandWords = {} /\ FilledWords(gHist[1]) = {}
  /\ gHist[1].hash # calculate_content_hash(gCand)
  /\ gAns = "True"

DefaultThreshold == [n |-> ThresholdNum, d |-> ThresholdDen]

\* C18: in strictly sequential cycles from an empty store the log never holds
\* two records with the same fingerprint, nor two records whose token sets
\* have a Jaccard similarity above 0.7: every record passed the gate against
\* the records stored before it.
C18_LogPairwiseNovel ==
  \A j \in DOMAIN file.recs :
    /\ \A i \in 1..(j - 1) :
          /\ file.recs[i].hash # file.recs[j].hash
          /\ ~JaccardAbove(FilledWords(file.recs[i]), FilledWords(file.recs[j]),
                           DefaultThreshold)
    /\ check_uniqueness(file.recs[j], SubSeq(file.recs, 1, j - 1),
                        ThresholdNum, ThresholdDen)

\* three records in the log, after a cycle in which the gate rejected once
C18_Witness ==
  /\ file.parsable /\ Len(file.recs) = 3
  /\ pc[1] = "done" /\ result[1] = "True" /\ rejects[1] = 1

\* The record a cycle makes of its event.
EntryOf(p) == event_entry(event[p], image_path[p], cyc[p])

InLog(rec) == \E i \in DOMAIN Loaded(file) : Loaded(file)[i] = rec

\* C19 (as claimed): when run returns True the last record of the persisted
\* log is the event just published, and when post_to_x returned True in a
\* cycle, the cycle returns True and the event is in the log.
C19_PublishedIsRecorded ==
  \A p \in Procs : pc[p] = "done" /\ Active(p) =>
    /\ (result[p] = "True" =>
          /\ Loaded(file) # <<>>
          /\ Last(Loaded(file)) = EntryOf(p))
    /\ (postRet[p] = "True" => result[p] = "True" /\ InLog(EntryOf(p)))

\* C19 (amended): run returns True exactly when post_to_x returned True and
\* save_history_log returned; then the persisted log is the log the cycle
\* loaded with the record of the published event as its last.  When
\* post_to_x returned True and the save raised, run returns False with a
\* record-save error and the published event is not in the log.
C19_TrueIffSaveReturned ==
  \A p \in Procs : pc[p] = "done" /\ Active(p) =>
    /\ (result[p] = "True" <=>
          postRet[p] = "True" /\ calls[p].save = 1 /\ caught[p] = "none")
    /\ (result[p] = "True" =>
          /\ postRet[p] = "True"
          /\ Loaded(file) = Append(Loaded(fileAtStart[p]), EntryOf(p))
          /\ Last(Loaded(file)) = EntryOf(p))
    /\ (postRet[p] = "True" /\ result[p] # "True" =>
          /\ result[p] = "False"
          /\ outcome[p] = "record-save error"
          /\ caught[p] = "run"
          /\ ~InLog(EntryOf(p)))
    /\ (postRet[p] # "True" => result[p] = "False" /\ calls[p].save = 0)

\* published, then the save raised: False, and the event is not in the log
C19_Witness ==
  /\ pc[1] = "done" /\ postRet[1] = "True" /\ calls[1].save = 1
  /\ result[1] = "False" /\ outcome[1] = "record-save error"
  /\ trail[1].published = event[1]
  /\ ~InLog(EntryOf(1))

\* C20: nothing excludes one cycle from another, and the load, append and save
\* of RECORD are separate steps: a save that returns replaces the store by the
\* log its own cycle loaded plus its record, whatever was stored in between,
\* and the gate and the load of RECORD read the store as it is at that moment.
\* So two interleaved cycles can both return True with one record lost, and
\* can both publish candidates of the same fingerprint.
C20_SaveOverwritesWithSnapshot ==
  [][\A p \in Procs :
       /\ (pc[p] = "save" /\ pc'[p] = "done" /\ result'[p] = "True" =>
             file' = [exists |-> TRUE, parsable |-> TRUE, recs |-> history_log[p]])
       /\ (pc[p] = "record" /\ pc'[p] = "save" =>
             /\ history_log'[p] = Append(Loaded(file), EntryOf(p))
             /\ file' = file)
       /\ (pc[p] \in {"gate1", "gate2"} /\ pc'[p] # pc[p] =>
             /\ gateSeen'[p].file = file
             /\ file' = file)]_vars

\* Both cycles began on the empty store, both published the same fingerprint,
\* both returned True, and the log holds one record.
C20_Witness ==
  /\ pc[1] = "done" /\ pc[2] = "done"
  /\ result[1] = "True" /\ result[2] = "True"
  /\ postRet[1] = "True" /\ postRet[2] = "True"
  /\ fileAtStart[1] = NoFile /\ fileAtStart[2] = NoFile
  /\ calculate_content_hash(event[1]) = calculate_content_hash(event[2])
  /\ Len(Loaded(file)) = 1
  /\ InLog(EntryOf(1)) # InLog(EntryOf(2))

\* The lost update with two events of different fingerprints.
C20_LostUpdateReached ==
  /\ pc[1] = "done" /\ pc[2] = "done"
  /\ result[1] = "True" /\ result[2] = "True"
  /\ calculate_content_hash(event[1]) # calculate_content_hash(event[2])
  /\ Len(Loaded(file)) = 1

====
